---- MODULE Spec2Model ----
(***************************************************************************)
(* Model of pubmed_retrieve: the incremental update of a MongoDB           *)
(* collection from the numbered PubMed update files, as src/main_ftp.py    *)
(* does it; of src/main.py, the step every run of it ends in.              *)
(*                                                                         *)
(* Strings are sequences of characters.  The characters of a pmid are the  *)
(* members of PmidChars, the separator ';' of the parser's 'reference'     *)
(* string is SEMI.  An ObjectId, which insert_one generates for a document *)
(* that has no '_id', is a sequence that starts with OidTag: BSON never    *)
(* holds an ObjectId equal to a string.                                    *)
(***************************************************************************)
EXTENDS Integers, Sequences, FiniteSets, TLC

\* ---------------------------------------------------------------- bounds
MaxSeq == 2          \* the update files on the server are numbered 0..MaxSeq
MaxDocs == 2         \* documents the collection holds at most
MaxRuns == 2         \* runs of main() in one behaviour
MaxWorkers == 2      \* concurrent workers of the concurrent merge

SEMI == 0
OidTag == 9
PmidChars == {1, 2}
None == <<-1>>

\* ---------------------------------------------------------------- helpers
Range(s) == {s[i] : i \in DOMAIN s}

RECURSIVE Join(_)
\* ";".join(pmids): the format of article['reference'] that line 214 splits.
Join(l) ==
    IF l = <<>> THEN <<>>
    ELSE IF Len(l) = 1 THEN Head(l)
    ELSE Head(l) \o <<SEMI>> \o Join(Tail(l))

RECURSIVE Split(_)
\* str.split(';'): one field more than there are separators, empty fields kept.
Split(s) ==
    IF s = <<>> THEN << <<>> >>
    ELSE LET rest == Split(Tail(s))
         IN  IF Head(s) = SEMI
             THEN << <<>> >> \o rest
             ELSE << <<Head(s)>> \o Head(rest) >> \o Tail(rest)

Pmids == {<<c>> : c \in PmidChars}

\* The raw citation lists of the articles: no target, one, or two distinct
\* targets in either order.
CiteLists ==
    {<<>>} \cup {<<p>> : p \in Pmids}
           \cup {l \in {<<p, q>> : p \in Pmids, q \in Pmids} : l[1] # l[2]}

RefStrings == {Join(l) : l \in CiteLists}

\* One dict of dicts_out, as update_database reads it.  The keys the code
\* never reads (title, abstract, authors, ...) travel with 'reference', the
\* part of the payload the model keeps: "1;2" and "2;1" are two payloads
\* with one citation set.
Articles == [pmid : Pmids, reference : RefStrings]

RECURSIVE DigitsToInt(_)
DigitsToInt(ds) ==
    IF ds = <<>> THEN 0 ELSE 10 * DigitsToInt(SubSeq(ds, 1, Len(ds) - 1)) + ds[Len(ds)]

\* 'pubmedYYnDDDD.xml.gz': a file name is modelled by the digits between
\* 'n' and '.', zero-padded to a fixed width as on the server.
FileNames == {<<0, d>> : d \in 0..MaxSeq}

parse_filename(filename) == DigitsToInt(filename)

\* ---------------------------------------------------------------- the store
VARIABLES
    store,        \* the collection pubmed.ajustes: its documents in insertion order
    pc,           \* where main() stands: idle, list, loop, merge, resolve
    last_number,  \* main's last_number, the watermark of the run
    listed,       \* the names list_files returned to the run
    queue,        \* sorted(files_to_download) not yet merged
    cur,          \* the file update_database is merging
    cursor,       \* updated_articles not yet resolved
    merged,       \* numbers of the files this run merged, in order
    maxApplied,   \* the highest number of a file some run merged completely
    outcome,      \* how the last run ended: none, ok, or the function that raised
    runs,         \* runs started
    emails,       \* calls of send_email in the last run
    malformed,    \* the last run ended on a record that could not be merged
    workers       \* concurrent merge: what each worker holds between its
                  \* lookup and its write

vars == <<store, pc, last_number, listed, queue, cur, cursor,
          merged, maxApplied, outcome, runs, emails, malformed, workers>>

Workers == 1..MaxWorkers

ObjectId(n) == <<OidTag, n>>

\* find_one({'_id': id}): the documents with that _id (at most one).
FindById(coll, id) == {d \in Range(coll) : d._id = id}

\* find({'updated': True})
FindUpdated(coll) ==
    SelectSeq(coll, LAMBDA d : "updated" \in DOMAIN d /\ d.updated = TRUE)

\* update_one({'_id': id}, {'$set': fields})
UpdateOne(coll, id, fields) ==
    [i \in DOMAIN coll |->
        IF coll[i]._id = id
        THEN [k \in DOMAIN coll[i] \cup DOMAIN fields |->
                 IF k \in DOMAIN fields THEN fields[k] ELSE coll[i][k]]
        ELSE coll[i]]

\* insert_one(doc): a document without '_id' gets a fresh ObjectId.
InsertOne(coll, doc) ==
    Append(coll,
           [k \in DOMAIN doc \cup {"_id"} |->
               IF k \in DOMAIN doc THEN doc[k] ELSE ObjectId(Len(coll) + 1)])

\* With(article, updated, references): article[...] = ... on the dict.
WithUpdated(article, flag) ==
    [k \in DOMAIN article \cup {"updated"} |->
        IF k = "updated" THEN flag ELSE article[k]]

WithReferences(article, refs) ==
    [k \in DOMAIN article \cup {"references"} |->
        IF k = "references" THEN refs ELSE article[k]]

\* new_references = set(article['reference'].split(';'))
NewReferences(article) == Range(Split(article.reference))

\* reference_docs; the list is built from a set, its order is not the code's.
ReferenceDocs(article) ==
    {[pmid |-> ref, idArticle |-> None] : ref \in NewReferences(article)}

\* existing_article = collection.find_one({'_id': article['pmid']})
ExistingArticle(coll, article) == FindById(coll, article.pmid)

\* Lines 218-231: the write of one turn of the loop over dicts_out, given
\* what the lookup of line 213 returned.
MergeWrite(coll, article, existing) ==
        IF existing # {}
        THEN LET e == CHOOSE d \in existing : TRUE
                 old_references ==
                     IF "references" \in DOMAIN e
                     THEN {ref.pmid : ref \in e.references} ELSE {}
             IN  IF old_references # NewReferences(article)
                 THEN UpdateOne(coll, e._id,
                          WithReferences(WithUpdated(article, TRUE),
                                         ReferenceDocs(article)))
                 ELSE coll
        ELSE InsertOne(coll,
                 WithReferences(WithUpdated(article, TRUE), ReferenceDocs(article)))

\* Lines 213-231: one turn of the loop over dicts_out.
MergeOne(coll, article) ==
    MergeWrite(coll, article, ExistingArticle(coll, article))

\* The lookup without its filter: every citation linked to the first document.
ResolvedReferencesUnfiltered(coll, article) ==
    {[pmid |-> ref.pmid, idArticle |-> coll[1]._id] : ref \in article.references}

\* Lines 236-239: the lookups of one updated article's references.
ResolvedReferences(coll, article) ==
    {LET ref_article == FindById(coll, ref.pmid)
     IN  IF ref_article # {}
         THEN [pmid |-> ref.pmid,
               idArticle |-> (CHOOSE d \in ref_article : TRUE)._id]
         ELSE ref
     : ref \in article.references}

\* The update without 'updated': False.
ResolveOneKeepsFlag(coll, article) ==
    UpdateOne(coll, article._id, [references |-> ResolvedReferences(coll, article)])

\* Lines 236-241: one turn of the loop over updated_articles.
ResolveOne(coll, article) ==
    UpdateOne(coll, article._id,
              [references |-> ResolvedReferences(coll, article), updated |-> FALSE])

RECURSIVE MergeAll(_, _)
\* Lines 212-231: the loop over dicts_out.
MergeAll(coll, dicts_out) ==
    IF dicts_out = <<>> THEN coll
    ELSE MergeAll(MergeOne(coll, Head(dicts_out)), Tail(dicts_out))

RECURSIVE ResolveAll(_, _)
\* Lines 235-241: the loop over updated_articles.
ResolveAll(coll, updated_articles) ==
    IF updated_articles = <<>> THEN coll
    ELSE ResolveAll(ResolveOne(coll, Head(updated_articles)), Tail(updated_articles))

\* Lines 209-241: update_database on one parsed file, when nothing raises.
UpdateDatabase(coll, dicts_out) ==
    LET merged_coll == MergeAll(coll, dicts_out)
    IN  ResolveAll(merged_coll, FindUpdated(merged_coll))

\* ---------------------------------------------------------------- main()
\* What ftp.nlst() can return: the names of some files, in any order.
Listings ==
    {l \in UNION {[1..n -> FileNames] : n \in 0..Cardinality(FileNames)} :
        \A i, j \in DOMAIN l : i # j => l[i] # l[j]}

\* [file for file in files if parse_filename(file) > last_number]
FilesToDownload(files, last) ==
    SelectSeq(files, LAMBDA f : parse_filename(f) > last)

RECURSIVE InsertByKey(_, _)
InsertByKey(sorted, f) ==
    IF sorted = <<>> THEN <<f>>
    ELSE IF parse_filename(f) < parse_filename(Head(sorted))
         THEN <<f>> \o sorted
         ELSE <<Head(sorted)>> \o InsertByKey(Tail(sorted), f)

\* The sort left out: the files in the order of the listing.
Unsorted(files) == files

RECURSIVE SortedByNumber(_)
\* sorted(files_to_download, key=parse_filename): ascending and stable.
SortedByNumber(files) ==
    IF files = <<>> THEN <<>>
    ELSE InsertByKey(SortedByNumber(SubSeq(files, 1, Len(files) - 1)),
                     files[Len(files)])

Init ==
    /\ store = <<>>
    /\ pc = "idle"
    /\ last_number = 0
    /\ listed = {}
    /\ queue = <<>>
    /\ cur = <<>>
    /\ cursor = <<>>
    /\ merged = <<>>
    /\ maxApplied = 0
    /\ outcome = "none"
    /\ runs = 0
    /\ emails = 0
    /\ malformed = FALSE
    /\ workers = [w \in Workers |-> <<>>]

\* main() returns or raises: its locals are gone.
RunEnds ==
    /\ last_number' = 0
    /\ listed' = {}
    /\ queue' = <<>>
    /\ cur' = <<>>
    /\ cursor' = <<>>
    /\ merged' = <<>>

\* The calls of send_email when f raises: a helper's own handler mails and
\* raises again (lines 110-114, 130-134, 148-152, 168-172, 191-195, 242-246),
\* and main's handler mails what reaches it (lines 290-294); what raises in
\* main itself is mailed there only.
SendEmails(f) == IF f = "main" THEN 1 ELSE 2

\* Lines 263-265: get_last_file reads 'filename' of the document find_one()
\* returns, which is any document of the collection; a document without that
\* key raises KeyError, which ends the run in main's handler.
GetLastFile ==
    /\ pc = "idle"
    /\ runs < MaxRuns
    /\ runs' = runs + 1
    /\ listed' = {}
    /\ merged' = <<>>
    /\ queue' = <<>>
    /\ malformed' = FALSE
    /\ IF store = <<>>
       THEN /\ last_number' = 0
            /\ pc' = "list"
            /\ outcome' = "none"
            /\ emails' = 0
       ELSE \E i \in DOMAIN store :
               IF "filename" \in DOMAIN store[i]
               THEN /\ last_number' = parse_filename(store[i].filename)
                    /\ pc' = "list"
                    /\ outcome' = "none"
                    /\ emails' = 0
               ELSE /\ last_number' = 0
                    /\ pc' = "idle"
                    /\ outcome' = "get_last_file"
                    /\ emails' = SendEmails("get_last_file")
    /\ UNCHANGED <<store, cur, cursor, maxApplied, workers>>

\* src/main.py, lines 78-80: the first version of the program starts with
\* get_last_updated_file, which subscripts what find_one(sort=...) returns:
\* None for the empty collection (TypeError), a document without 'filename'
\* otherwise (KeyError).  Neither program writes a 'filename', so a run of
\* main.py ends here on every store they leave; what main.py does once a
\* document has the key is outside this model.
GetLastUpdatedFile ==
    /\ pc = "idle"
    /\ runs < MaxRuns
    /\ \A i \in DOMAIN store : "filename" \notin DOMAIN store[i]
    /\ runs' = runs + 1
    /\ outcome' = "get_last_updated_file"
    /\ emails' = 0
    /\ malformed' = FALSE
    /\ UNCHANGED <<store, pc, last_number, listed, queue, cur, cursor, merged,
                   maxApplied, workers>>

\* Lines 271-275: the listing, the filter and the sort.
ListFiles ==
    /\ pc = "list"
    /\ \E files \in Listings :
          /\ listed' = Range(files)
          /\ queue' = SortedByNumber(FilesToDownload(files, last_number))
    /\ pc' = "loop"
    /\ UNCHANGED <<store, last_number, cur, cursor, merged, maxApplied,
                   outcome, runs, emails, malformed, workers>>

\* Lines 276-282 and 210-211: the next file is downloaded, decompressed and parsed.
Download ==
    /\ pc = "loop"
    /\ queue # <<>>
    /\ cur' = Head(queue)
    /\ pc' = "merge"
    /\ UNCHANGED <<store, last_number, listed, queue, cursor, merged, maxApplied,
                   outcome, runs, emails, malformed, workers>>

\* Lines 212-231: dicts_out has one more article.
MergeArticle ==
    /\ pc = "merge"
    /\ \E article \in Articles :
          /\ Len(MergeOne(store, article)) <= MaxDocs
          /\ store' = MergeOne(store, article)
    /\ UNCHANGED <<pc, last_number, listed, queue, cur, cursor, merged, maxApplied,
                   outcome, runs, emails, malformed, workers>>

\* Line 234: dicts_out is exhausted; the scan for the updated articles.
FindUpdatedArticles ==
    /\ pc = "merge"
    /\ cursor' = FindUpdated(store)
    /\ pc' = "resolve"
    /\ UNCHANGED <<store, last_number, listed, queue, cur, merged,
                   maxApplied, outcome, runs, emails, malformed, workers>>

\* Lines 235-241: the next updated article.
ResolveArticle ==
    /\ pc = "resolve"
    /\ cursor # <<>>
    /\ store' = ResolveOne(store, Head(cursor))
    /\ cursor' = Tail(cursor)
    /\ UNCHANGED <<pc, last_number, listed, queue, cur, merged,
                   maxApplied, outcome, runs, emails, malformed, workers>>

\* update_database returns; main's loop goes on to the next file.
EndUpdate ==
    /\ pc = "resolve"
    /\ cursor = <<>>
    /\ merged' = Append(merged, parse_filename(cur))
    /\ maxApplied' = IF parse_filename(cur) > maxApplied
                      THEN parse_filename(cur) ELSE maxApplied
    /\ queue' = Tail(queue)
    /\ pc' = "loop"
    /\ UNCHANGED <<store, last_number, listed, cur, cursor, outcome,
                   runs, emails, malformed, workers>>

\* Lines 284-288: every file is merged.
Finish ==
    /\ pc = "loop"
    /\ queue = <<>>
    /\ pc' = "idle"
    /\ outcome' = "ok"
    /\ RunEnds
    /\ UNCHANGED <<store, maxApplied, runs, emails, malformed, workers>>

\* The function that raises where main() stands, when the server or the
\* store fails there; ftplib.FTP, login and cwd raise in main itself.
Raising(at) ==
    CASE at = "list" -> {"main", "list_files"}
      [] at = "loop" -> {"download_file", "decompress_file"}
      [] OTHER -> {"update_database"}

\* Lines 242-246 and 290-294: a listing, a download, a decompression or a
\* store operation raises; the exception ends the run where it stands.
Raise ==
    /\ pc \in {"list", "loop", "merge", "resolve"}
    /\ pc' = "idle"
    /\ \E f \in Raising(pc) :
          /\ outcome' = f
          /\ emails' = SendEmails(f)
    /\ RunEnds
    /\ UNCHANGED <<store, maxApplied, runs, malformed, workers>>

\* Lines 213-214 and 242-246: dicts_out has a record that cannot be merged
\* (article['pmid'] or article['reference'] raises); the exception leaves the
\* loop over dicts_out for update_database's handler, which mails and raises
\* again, and main's handler ends the run.
MergeMalformed ==
    /\ pc = "merge"
    /\ malformed' = TRUE
    /\ pc' = "idle"
    /\ outcome' = "update_database"
    /\ emails' = SendEmails("update_database")
    /\ RunEnds
    /\ UNCHANGED <<store, maxApplied, runs, workers>>

Next ==
    \/ GetLastFile
    \/ GetLastUpdatedFile
    \/ ListFiles
    \/ Download
    \/ MergeArticle
    \/ FindUpdatedArticles
    \/ ResolveArticle
    \/ EndUpdate
    \/ Finish
    \/ Raise
    \/ MergeMalformed

Spec == Init /\ [][Next]_vars

\* ------------------------------------------------- concurrent merge
\* The turns of the loop of lines 212-231 taken by concurrent workers on one
\* collection: find_one and the write that follows it are two store
\* operations, each atomic, and other workers' operations come between them.
Busy == {w \in Workers : workers[w] # <<>>}

\* Line 213: a worker takes an article and looks it up.
WFind(w) ==
    /\ workers[w] = <<>>
    /\ Len(store) + Cardinality(Busy) < MaxDocs
    /\ \E article \in Articles :
          workers' = [workers EXCEPT ![w] =
                         [article |-> article,
                          existing |-> ExistingArticle(store, article)]]
    /\ UNCHANGED <<store, pc, last_number, listed, queue, cur, cursor, merged,
                   maxApplied, outcome, runs, emails, malformed>>

\* Lines 218-231: the worker writes according to what its lookup returned.
WWrite(w) ==
    /\ workers[w] # <<>>
    /\ store' = MergeWrite(store, workers[w].article, workers[w].existing)
    /\ workers' = [workers EXCEPT ![w] = <<>>]
    /\ UNCHANGED <<pc, last_number, listed, queue, cur, cursor, merged,
                   maxApplied, outcome, runs, emails, malformed>>

WNext == \E w \in Workers : WFind(w) \/ WWrite(w)

SpecWorkers == Init /\ [][WNext]_vars

\* ---------------------------------------------------------------- claims
Dirty(d) == "updated" \in DOMAIN d /\ d.updated = TRUE

\* The target ids of a stored document's citations.
TargetSet(d) == {ref.pmid : ref \in d.references}

\* The batch number a stored document carries: the 'filename' key that
\* get_last_file reads.
StoredBatchSeqs(coll) ==
    {parse_filename(d.filename) : d \in {x \in Range(coll) : "filename" \in DOMAIN x}}

MaxOf(S) == CHOOSE m \in S : \A n \in S : n <= m

\* The parsed files the pure statements range over: up to two articles.
Batches == {<<>>} \cup {<<a>> : a \in Articles}
                  \cup {<<a, b>> : a \in Articles, b \in Articles}

\* C1: the store never holds two documents with the same pmid.
C1_NoDuplicates ==
    \A i, j \in DOMAIN store : store[i].pmid = store[j].pmid => i = j

\* C2: update_database applied a second time to the same parsed file leaves
\* the store as the first application left it.
C2_IdempotentMerge ==
    \A b \in Batches :
        UpdateDatabase(UpdateDatabase(store, b), b) = UpdateDatabase(store, b)

\* C3: a run that starts on the initial store or on the store a completed
\* run left resolves its watermark without raising, as the highest batch
\* number a stored document carries, 0 for the empty store.
C3_WatermarkIsMax ==
    [][(runs' = runs + 1 /\ outcome \in {"none", "ok"})
          => /\ pc' = "list"
             /\ last_number' = MaxOf(StoredBatchSeqs(store) \cup {0})]_vars

IsAscending(ns) == \A i, j \in DOMAIN ns : i < j => ns[i] < ns[j]

Numbers(files) == [i \in DOMAIN files |-> parse_filename(files[i])]

\* C4: in a run, the files merged so far followed by the files still to
\* merge are the listed files whose number is above the watermark, each
\* once, in ascending order of their numbers, and the file being merged is
\* the first of those still to merge; the filter and the sort select so for
\* every listing order and every watermark.
C4_SelectionAndOrder ==
    /\ pc \in {"loop", "merge", "resolve"} =>
          LET order == merged \o Numbers(queue)
          IN  /\ Range(order) =
                    {parse_filename(f) : f \in {g \in listed : parse_filename(g) > last_number}}
              /\ IsAscending(order)
              /\ pc \in {"merge", "resolve"} => (queue # <<>> /\ cur = Head(queue))
    /\ pc = "list" =>
          \A files \in Listings, w \in 0..MaxSeq :
              LET q == SortedByNumber(FilesToDownload(files, w))
              IN  /\ Range(q) = {f \in Range(files) : parse_filename(f) > w}
                  /\ IsAscending(Numbers(q))

\* Witness of C4: a run merged two files and skipped a listed one.
C4_Witness ==
    /\ pc = "loop"
    /\ queue = <<>>
    /\ Len(merged) >= 2
    /\ \E f \in listed : parse_filename(f) <= last_number

\* C5: a run of main_ftp.py that starts after a completed run whose files
\* left documents in the store resolves, without raising, the highest number
\* of a file merged so far as its watermark.
C5_WatermarkFollowsApplied ==
    [][(/\ runs' = runs + 1
        /\ outcome' # "get_last_updated_file"
        /\ outcome = "ok"
        /\ store # <<>>)
          => /\ pc' = "list"
             /\ last_number' = maxApplied]_vars

\* C6: merging an article whose pmid is stored with the same set of citation
\* targets writes nothing.
C6_UnchangedIsNoOp ==
    pc = "merge" =>
        \A a \in Articles :
            (\E d \in Range(store) : d.pmid = a.pmid /\ TargetSet(d) = NewReferences(a))
                => MergeOne(store, a) = store

\* What the claims expect of the document a merge writes for article a
\* from the file being merged.
IsMergedFrom(d, a) ==
    /\ d.pmid = a.pmid
    /\ d.reference = a.reference
    /\ d.references = ReferenceDocs(a)
    /\ d.updated = TRUE
    /\ "filename" \in DOMAIN d
    /\ parse_filename(d.filename) = parse_filename(cur)

\* C7: merging an article whose pmid is stored with another set of citation
\* targets rewrites that one document: payload and citations replaced, every
\* idArticle None, updated set, the batch number that of the file merged.
C7_ChangedIsReplaced ==
    pc = "merge" =>
        \A a \in Articles :
            \A i \in DOMAIN store :
                (store[i].pmid = a.pmid /\ TargetSet(store[i]) # NewReferences(a))
                    => LET after == MergeOne(store, a)
                       IN  /\ Len(after) = Len(store)
                           /\ IsMergedFrom(after[i], a)
                           /\ \A j \in DOMAIN store : j # i => after[j] = store[j]

\* C8: merging an article whose pmid is not stored adds one document: updated
\* set, the batch number that of the file merged, one citation for each raw
\* target, every idArticle None.
C8_FirstSightInserts ==
    pc = "merge" =>
        \A a \in Articles :
            (\A d \in Range(store) : d.pmid # a.pmid)
                => LET after == MergeOne(store, a)
                   IN  /\ Len(after) = Len(store) + 1
                       /\ SubSeq(after, 1, Len(store)) = store
                       /\ IsMergedFrom(after[Len(after)], a)

\* C9: every citation's idArticle is None or the _id of a stored document
\* whose pmid is the citation's target.
C9_ResolutionSound ==
    \A d \in Range(store) :
        \A ref \in d.references :
            \/ ref.idArticle = None
            \/ \E t \in Range(store) : t._id = ref.idArticle /\ t.pmid = ref.pmid

\* Witness of C9: the resolution pass is over, and a resolved document cites
\* a pmid that is stored.
C9_Witness ==
    /\ pc = "resolve"
    /\ cursor = <<>>
    /\ \E d \in Range(store) :
          /\ ~Dirty(d)
          /\ \E ref \in d.references : \E t \in Range(store) : t.pmid = ref.pmid

\* C10: when the resolution pass of update_database is over no document is
\* dirty, and a document becomes dirty only in a merge step that creates it
\* or changes its content.
C10_DirtyLifecycle ==
    [][/\ (pc = "resolve" /\ pc' = "loop") => \A d \in Range(store') : ~Dirty(d)
       /\ \A i \in DOMAIN store' :
             (Dirty(store'[i]) /\ ~(i \in DOMAIN store /\ Dirty(store[i])))
                 => /\ pc = "merge"
                    /\ \/ i \notin DOMAIN store
                       \/ store'[i].reference # store[i].reference
                       \/ TargetSet(store'[i]) # TargetSet(store[i])]_vars

\* Witness of C10: the resolution pass is over and a document it cleared
\* keeps a citation that is not resolved.
C10_Witness ==
    /\ pc = "resolve"
    /\ cursor = <<>>
    /\ store # <<>>
    /\ \E d \in Range(store) : \E ref \in d.references : ref.idArticle = None

\* The stored documents whose pmid is id.
WithPmid(coll, id) == {d \in Range(coll) : d.pmid = id}

\* A citation is linked to its target in coll: the target is stored and
\* idArticle is the _id of a document with that pmid.
IsLinked(coll, ref) == \E t \in WithPmid(coll, ref.pmid) : ref.idArticle = t._id

\* C11: when the resolution pass handles a dirty document, each of its
\* citations of another pmid stays None if that pmid is not stored, and gets
\* the _id of the document with that pmid if it is.
C11_ForwardReference ==
    [][(pc = "resolve" /\ pc' = "resolve" /\ cursor # <<>> /\ cursor' = Tail(cursor))
          => \A d \in FindById(store', Head(cursor)._id) :
                \A ref \in {r \in d.references : r.pmid # d.pmid} :
                    IF WithPmid(store, ref.pmid) = {}
                    THEN ref.idArticle = None
                    ELSE IsLinked(store, ref)]_vars

\* C12: when a run has merged its files and the resolution pass has run
\* after the last of them, every citation of another pmid that is stored is
\* linked to the document with that pmid.
C12_EventuallyLinked ==
    (pc = "loop" /\ queue = <<>> /\ merged # <<>>)
        => \A d \in Range(store) :
              \A ref \in {r \in d.references : r.pmid # d.pmid} :
                  WithPmid(store, ref.pmid) # {} => IsLinked(store, ref)

\* C13: merging an article whose pmid is stored with another payload or
\* another set of citation targets leaves the stored document with the
\* republished payload.
C13_RepublishedIsStored ==
    pc = "merge" =>
        \A a \in Articles :
            \A i \in DOMAIN store :
                (/\ store[i].pmid = a.pmid
                 /\ \/ store[i].reference # a.reference
                    \/ TargetSet(store[i]) # NewReferences(a))
                    => MergeOne(store, a)[i].reference = a.reference

\* C14: meeting a record that cannot be merged does not end the merge of its
\* file: the run stays in the loop over the file's records.
C14_MalformedIsolated ==
    [][(pc = "merge" /\ malformed') => pc' = "merge"]_vars

\* C16: a run of main_ftp that ended on an error called send_email once, and a
\* run that completed did not call it.
C16_OneEmailPerAbort ==
    (pc = "idle" /\ outcome \notin {"none", "get_last_updated_file"})
        => emails = IF outcome = "ok" THEN 0 ELSE 1

\* A run of main_ftp ended on an error.
Aborted == pc = "idle" /\ outcome \notin {"none", "ok", "get_last_updated_file"}

\* C15: the step that ends a run on an error leaves the store as it is, and
\* the run of main_ftp that starts after such a run, on a store that holds
\* documents, goes on to the listing from the highest number merged completely.
C15_AbortAndResume ==
    [][/\ (pc # "idle" /\ Aborted') => store' = store
       /\ (Aborted /\ store # <<>> /\ runs' = runs + 1
              /\ outcome' # "get_last_updated_file")
            => (pc' = "list" /\ last_number' = maxApplied)]_vars

\* What a collection holds when the generated _ids and the insertion order
\* are left aside: each document's pmid, payload, flag and citations, a
\* citation's link given by the pmid of the document it points to.
LinkedPmid(coll, ref) ==
    IF ref.idArticle = None THEN None
    ELSE {d.pmid : d \in FindById(coll, ref.idArticle)}

View(coll) ==
    {[pmid |-> d.pmid, reference |-> d.reference, updated |-> Dirty(d),
      references |-> {[pmid |-> ref.pmid, linked |-> LinkedPmid(coll, ref)] :
                         ref \in d.references}] : d \in Range(coll)}

\* C17: update_database on a file of two articles with different pmids leaves
\* the same documents whichever article comes first, and a citation of the
\* one by the other is linked in both orders.
C17_OrderIndependent ==
    pc = "merge" =>
        \A a, b \in Articles :
            a.pmid # b.pmid =>
                LET ab == UpdateDatabase(store, <<a, b>>)
                    ba == UpdateDatabase(store, <<b, a>>)
                IN  /\ View(ab) = View(ba)
                    /\ \A coll \in {ab, ba} :
                          \A d \in WithPmid(coll, a.pmid) :
                              \A ref \in d.references :
                                  ref.pmid = b.pmid => IsLinked(coll, ref)

\* The raw citation lists of C19: no citation, one, two, and one given twice.
RawCiteLists == CiteLists \cup {<<p, p>> : p \in Pmids}

\* C19: the document inserted for an article has one citation for each
\* target of the article's raw citation list and none for another id; for an
\* article without citations it has none.
C19_CitationsAreTargets ==
    pc = "merge" =>
        \A p \in Pmids :
            \A l \in RawCiteLists :
                LET article == [pmid |-> p, reference |-> Join(l)]
                    coll == InsertOne(store,
                                WithReferences(WithUpdated(article, TRUE),
                                               ReferenceDocs(article)))
                IN  TargetSet(coll[Len(coll)]) = Range(l)

\* C18: when a worker has written its article, the collection holds one
\* document with the article's pmid, and that document has the article's
\* payload, whatever the other workers did between its lookup and its write.
C18_OnePerPmidLastWriteWins ==
    [][\A w \in Workers :
          (workers[w] # <<>> /\ workers'[w] = <<>>)
              => /\ Cardinality(WithPmid(store', workers[w].article.pmid)) = 1
                 /\ \A d \in WithPmid(store', workers[w].article.pmid) :
                       d.reference = workers[w].article.reference]_vars

====
